---- MODULE Spec2Model ----
(***************************************************************************)
(* Model of jormungandr/src/network/bootstrap.rs: one run of              *)
(* bootstrap_from_peer.  The task is modelled at the granularity of its   *)
(* await points; the peer, the chain-state engine and the shutdown source *)
(* are the environment.                                                   *)
(***************************************************************************)
EXTENDS Integers, Sequences, FiniteSets, TLC

VARIABLES
    pc,                 \* position of the bootstrap task
    bootstrap_stopper,  \* the Shared<Receiver<()>>: "pending", "fired", "closed"
    setup,              \* progress of stream_future and of the I/O it awaits
    stream,             \* items the peer has sent and the task has not pulled
    stream_ended,       \* the peer has closed the block stream
    pulled,             \* history: items taken out of the block stream
    yielded,            \* history: what the merged stream yielded, poll by poll
    cur,                \* hash of the block handle_block is working on
    maybe_parent_tip,   \* Option<Arc<Ref>>: <<>> is None, <<r>> is Some(r)
    bootstrap_info,     \* the BootstrapInfo record
    pending_err,        \* the error the loop halted on while process_new_ref runs
    result,             \* what bootstrap_from_peer returned
    storage,            \* hashes of the blocks in storage
    ref_cache,          \* hashes of the blocks that have a cached Ref
    tip,                \* the Tip slot
    calls,              \* history: calls made to the chain-state engine
    fired_at,           \* history: snapshot taken when the stopper fired
    reports,            \* history: the lines report() has logged
    sz_in,              \* the magnitude handed to print_sz on its own
    sz_out              \* what print_sz made of sz_in, "" before the call

vars == <<pc, bootstrap_stopper, setup, stream, stream_ended, pulled, yielded,
          cur, maybe_parent_tip, bootstrap_info, pending_err, result, storage,
          ref_cache, tip, calls, fired_at, reports, sz_in, sz_out>>

----------------------------------------------------------------------------
(* Bounds *)

\* number of items (blocks or errors) the peer sends in one run
MaxItems == 3

\* number of entries a history keeps: the later ones are dropped
MaxHistory == 16

\* number of blocks the peer sends in one long run
LongItems == 5000

\* the magnitudes handed to print_sz lie within SzWindow of a threshold or
\* of a divisor
SzWindow == 8

----------------------------------------------------------------------------
(* The chain the node starts with, and the blocks the peer can send *)

\* blockchain.block0(): the genesis hash
block0 == 0

PROCESS_LOGGING_DISTANCE == 2500

NoHash == -1

\* 0 <- 1 <- 2 (initial tip) <- 4 <- 5 <- 6, 3 a child of 0 that is in
\* storage without a cached reference, and 7 a child of 1 (a fork below the
\* initial tip)
Blocks == 0..7

Parent(h) ==
    IF h = 1 THEN 0
    ELSE IF h = 2 THEN 1
    ELSE IF h = 3 THEN 0
    ELSE IF h = 4 THEN 2
    ELSE IF h = 5 THEN 4
    ELSE IF h = 6 THEN 5
    ELSE IF h = 7 THEN 1
    ELSE NoHash

InitStorage == {0, 1, 2, 3}

InitRefCache == {0, 1, 2}

InitTip == 2

\* b.serialize_as_vec().unwrap().len()
BlockSize(h) == h + 1

RECURSIVE ChainLength(_)
ChainLength(h) == IF h = block0 \/ h = NoHash THEN 0 ELSE 1 + ChainLength(Parent(h))

----------------------------------------------------------------------------
(* Values *)

Ok == [tag |-> "Ok", kind |-> "", hash |-> NoHash]

OkBlock(h) == [tag |-> "Ok", kind |-> "Block", hash |-> h]

OkRef(r) == [tag |-> "Ok", kind |-> "Ref", hash |-> r]

Err(kind) == [tag |-> "Err", kind |-> kind, hash |-> NoHash]

ErrHash(kind, h) == [tag |-> "Err", kind |-> kind, hash |-> h]

Panic == [tag |-> "Panic", kind |-> "failed to wait for SIGINT", hash |-> NoHash]

\* the panic of the u64 subtraction in report(), in a build with overflow
\* checks
SubtractPanic == [tag |-> "Panic", kind |-> "attempt to subtract with overflow",
                  hash |-> NoHash]

\* the panic of the expect in report()
ReportPanic == [tag |-> "Panic",
                kind |-> "append_block should always be called before report",
                hash |-> NoHash]

NoResult == [tag |-> "None", kind |-> "", hash |-> NoHash]

\* recorded in `yielded` when the merged stream yields None
EndOfStream == [tag |-> "End", kind |-> "", hash |-> NoHash]

\* what the peer's stream can carry: Result<Block, NetworkError>
StreamItems == {OkBlock(h) : h \in Blocks} \cup {Err("NetworkError")}

\* a history with one more entry
Log(h, x) == IF Len(h) < MaxHistory THEN Append(h, x) ELSE h

\* fired_at before the stopper has fired
NotFired == [pc |-> "none", pulled |-> <<>>, tip |-> <<>>, calls |-> <<>>,
             waiting |-> FALSE]

----------------------------------------------------------------------------
(* The chain-state engine (crate::blockchain), as the specification gives it *)

\* pre_check_header: the Admission Classification of a header
pre_check_header(h, st, rc) ==
    IF h \in st
    THEN [cls |-> "AlreadyPresent",
          cached_reference |-> IF h \in rc THEN <<h>> ELSE <<>>,
          parent_ref |-> <<>>]
    ELSE IF Parent(h) \notin rc
    THEN [cls |-> "MissingParent", cached_reference |-> <<>>, parent_ref |-> <<>>]
    ELSE [cls |-> "HeaderWithCache", cached_reference |-> <<>>,
          parent_ref |-> <<Parent(h)>>]

\* chain selection: the candidate becomes the Tip when its chain is longer
process_new_ref(t, candidate) ==
    IF ChainLength(candidate) > ChainLength(t) THEN candidate ELSE t

\* an entry of `calls`; cls is the classification pre_check_header gave
Call(op, h, ok, cls) == [op |-> op, hash |-> h, ok |-> ok, cls |-> cls]

Classification(pre) ==
    IF pre.cls = "AlreadyPresent"
    THEN IF pre.cached_reference # <<>> THEN "AlreadyPresentSome"
         ELSE "AlreadyPresentNone"
    ELSE pre.cls

----------------------------------------------------------------------------
(* bootstrap_from_peer: the setup future and its race with the stopper *)

InitSetup == [stage |-> "connect", connect |-> "pending", ready |-> "idle",
              checkpoints |-> "idle", pull |-> "idle"]

\* what the futures stream_future creates are when they are first polled:
\* an await suspends only when the awaited future is then pending
FirstPolls == [ready : {"pending", "ok", "err"},
               checkpoints : {"pending", "ok"},
               pull : {"pending", "ok", "err"}]

\* no future is ready when first polled
AllPending == [ready |-> "pending", checkpoints |-> "pending", pull |-> "pending"]

\* stream_future at the await of pull_blocks_to_tip
poll_pull(s) ==
    IF s.pull = "err" THEN [setup |-> s, out |-> Err("PullRequestFailed")]
    ELSE IF s.pull = "ok" THEN [setup |-> s, out |-> Ok]
    ELSE [setup |-> s, out |-> NoResult]

\* faulty variant: the pull request is issued as soon as the client is ready,
\* without waiting for the checkpoints
poll_join_ready_only(s, now) ==
    IF s.ready = "err" THEN [setup |-> s, out |-> Err("ClientNotReady")]
    ELSE IF s.ready = "ok"
    THEN poll_pull([s EXCEPT !.stage = "pull_request", !.pull = now.pull])
    ELSE [setup |-> s, out |-> NoResult]

\* stream_future at the await of try_join(ready, get_checkpoints): when both
\* have succeeded the pull request is issued and polled in the same poll
poll_join(s, now) ==
    IF s.ready = "err" THEN [setup |-> s, out |-> Err("ClientNotReady")]
    ELSE IF s.ready = "ok" /\ s.checkpoints = "ok"
    THEN poll_pull([s EXCEPT !.stage = "pull_request", !.pull = now.pull])
    ELSE [setup |-> s, out |-> NoResult]

\* the state in which try_join is first polled: ready() is polled first, a
\* failure of it ends try_join before get_checkpoints is polled
enter_join(s, now) ==
    [s EXCEPT !.stage = "join", !.ready = now.ready,
              !.checkpoints = IF now.ready = "err" THEN "idle"
                              ELSE now.checkpoints]

\* faulty variant: the pull request is issued as soon as the client is ready,
\* without waiting for the checkpoints
stream_future_no_join(s, now) ==
    IF s.stage = "connect"
    THEN IF s.connect = "err" THEN [setup |-> s, out |-> Err("Connect")]
         ELSE IF s.connect = "ok" THEN poll_join_ready_only(enter_join(s, now), now)
         ELSE [setup |-> s, out |-> NoResult]
    ELSE IF s.stage = "join" THEN poll_join_ready_only(s, now)
    ELSE poll_pull(s)

\* one poll of stream_future: it runs from the await it is suspended at
\* through every await whose future is ready, and resolves or suspends
\* (NoResult: Poll::Pending); now tells what the futures it creates on the
\* way are when first polled
stream_future(s, now) ==
    IF s.stage = "connect"
    THEN IF s.connect = "err" THEN [setup |-> s, out |-> Err("Connect")]
         ELSE IF s.connect = "ok" THEN poll_join(enter_join(s, now), now)
         ELSE [setup |-> s, out |-> NoResult]
    ELSE IF s.stage = "join" THEN poll_join(s, now)
    ELSE poll_pull(s)

\* faulty variant: the stopper is polled first, the setup future only when
\* the stopper is pending
select_stopper_first(s, stopper, now) ==
    LET f == stream_future(s, now) IN
    IF stopper = "fired"
    THEN [side |-> "Right", setup |-> s, out |-> Err("Interrupted")]
    ELSE IF stopper = "closed"
    THEN [side |-> "Right", setup |-> s, out |-> Panic]
    ELSE IF f.out # NoResult THEN [side |-> "Left", setup |-> f.setup, out |-> f.out]
    ELSE [side |-> "Pending", setup |-> f.setup, out |-> NoResult]

\* select(stream_future.boxed(), bootstrap_stopper): the left future is
\* polled first, the stopper only when the left one is pending
select(s, stopper, now) ==
    LET f == stream_future(s, now) IN
    IF f.out # NoResult THEN [side |-> "Left", setup |-> f.setup, out |-> f.out]
    ELSE IF stopper = "fired"
    THEN [side |-> "Right", setup |-> f.setup, out |-> Err("Interrupted")]
    ELSE IF stopper = "closed"
    THEN [side |-> "Right", setup |-> f.setup, out |-> Panic]
    ELSE [side |-> "Pending", setup |-> f.setup, out |-> NoResult]

----------------------------------------------------------------------------
(* BootstrapInfo *)

BootstrapInfoNew == [last_bytes_received |-> 0, bytes_received |-> 0,
                     block_received |-> 0, last_block_description |-> <<>>]

\* faulty variant: the block counter is not advanced
append_block_uncounted(info, h) ==
    [info EXCEPT !.bytes_received = @ + BlockSize(h),
                 !.last_block_description = <<h>>]

append_block(info, h) ==
    [info EXCEPT !.bytes_received = @ + BlockSize(h),
                 !.block_received = @ + 1,
                 !.last_block_description = <<h>>]

\* format!("{:.2}", n / d) for whole n and d: the quotient rounded to
\* hundredths, ties to even, in decimal notation
Format2(n, d) ==
    LET q == (100 * n) \div d
        r == (100 * n) % d
        h == IF 2 * r > d \/ (2 * r = d /\ q % 2 = 1) THEN q + 1 ELSE q
        f == h % 100
    IN ToString(h \div 100) \o "." \o (IF f < 10 THEN "0" ELSE "") \o ToString(f)

\* faulty variant: the thresholds themselves are rendered in the larger unit
print_sz_inclusive(n) ==
    IF n >= 1000000 THEN Format2(n, 1024 * 1024) \o "mb"
    ELSE IF n >= 1000 THEN Format2(n, 1024) \o "kb"
    ELSE Format2(n, 1) \o "b"

\* fn print_sz(n: f64) -> String, for whole n
print_sz(n) ==
    IF n > 1000000 THEN Format2(n, 1024 * 1024) \o "mb"
    ELSE IF n > 1000 THEN Format2(n, 1024) \o "kb"
    ELSE Format2(n, 1) \o "b"

\* print_sz((w as f64)) for w the u64 that bytes_received -
\* last_bytes_received wraps to when it is d below zero, 0 < d < 2^31: w is
\* 2^64 - d, the conversion rounds it to 2^64 - 2048 * k (53 bits, ties to
\* the even one), and that, divided by 1024 * 1024, is 2^44 - k / 512,
\* rendered with two decimals
print_sz_wrapped(d) ==
    LET k0 == d \div 2048
        r0 == d % 2048
        k == IF r0 > 1024 \/ (r0 = 1024 /\ k0 % 2 = 1) THEN k0 + 1 ELSE k0
        q == (25 * k) \div 128
        r == (25 * k) % 128
        a == IF r = 0 THEN q
             ELSE IF 2 * r > 128 \/ (2 * r = 128 /\ q % 2 = 1) THEN q + 1
             ELSE q
        low == 4441600 - a
        w == low \div 100
        f == low % 100
    IN "17592186" \o (IF w < 10000 THEN "00" ELSE "0") \o ToString(w) \o "." \o
       (IF f < 10 THEN "0" ELSE "") \o ToString(f) \o "mb"

\* report(info) in a build with (checks) or without overflow checks: the
\* counters after it, the line it logs if it gets there, and the panic it ends
\* in if any.  The subtraction of bytes_diff panics under overflow checks and
\* wraps without them; the expect on last_block_description panics after the
\* counters were updated and before anything is logged.  The time of the
\* report and the throughput derived from it are left out.
report(info, checks) ==
    LET under == info.bytes_received < info.last_bytes_received
        after == [info EXCEPT !.last_bytes_received = info.bytes_received]
    IN IF under /\ checks
       THEN [info |-> info, logged |-> <<>>, panic |-> SubtractPanic]
       ELSE IF info.last_block_description = <<>>
       THEN [info |-> after, logged |-> <<>>, panic |-> ReportPanic]
       ELSE [info |-> after,
             logged |-> <<[block_received |-> info.block_received,
                           bytes_received |-> info.bytes_received,
                           last_bytes_received |-> info.last_bytes_received,
                           bytes |-> IF under
                                     THEN print_sz_wrapped(
                                              info.last_bytes_received
                                              - info.bytes_received)
                                     ELSE print_sz(info.bytes_received
                                                   - info.last_bytes_received),
                           blockchain |-> info.last_block_description]>>,
             panic |-> NoResult]

----------------------------------------------------------------------------
(* bootstrap_from_stream *)

\* faulty variant: the firing of the stopper is not turned into an item
stopper_poll_deaf(stopper) ==
    IF stopper = "closed" THEN Panic ELSE NoResult

\* faulty variant: a closed channel is taken for the signal
stopper_poll_swallows_close(stopper) ==
    IF stopper = "pending" THEN NoResult ELSE Err("Interrupted")

\* bootstrap_stopper.map(..): Ok(()) becomes Err(Interrupted), a closed
\* channel panics
stopper_poll(stopper) ==
    IF stopper = "fired" THEN Err("Interrupted")
    ELSE IF stopper = "closed" THEN Panic
    ELSE NoResult

\* stream.map_err(Error::PullStreamFailed), polled once
block_stream_poll(q, ended) ==
    IF q # <<>>
    THEN [tag |-> "Some",
          val |-> IF Head(q).tag = "Ok" THEN Head(q) ELSE Err("PullStreamFailed"),
          pulls |-> TRUE]
    ELSE IF ended THEN [tag |-> "None", val |-> NoResult, pulls |-> FALSE]
    ELSE [tag |-> "Pending", val |-> NoResult, pulls |-> FALSE]

\* faulty variant: the block stream is polled first, the stopper only when the block
\* stream is pending
poll_fn_stream_first(stopper, q, ended) ==
    LET b == block_stream_poll(q, ended)
        v == stopper_poll(stopper) IN
    IF b.tag # "Pending" THEN b
    ELSE IF v = NoResult THEN b
    ELSE IF v.tag = "Panic" THEN [tag |-> "Panic", val |-> v, pulls |-> FALSE]
    ELSE [tag |-> "Some", val |-> v, pulls |-> FALSE]

\* faulty variant: the stopper is polled only once the block stream has
\* yielded; a pending block stream makes the poll pending
poll_fn_waits_for_stream(stopper, q, ended) ==
    LET b == block_stream_poll(q, ended)
        v == stopper_poll(stopper) IN
    IF b.tag = "Pending" \/ v = NoResult THEN b
    ELSE IF v.tag = "Panic" THEN [tag |-> "Panic", val |-> v, pulls |-> FALSE]
    ELSE [tag |-> "Some", val |-> v, pulls |-> FALSE]

\* the stream::poll_fn closure: the stopper first, the block stream only
\* when the stopper is pending
poll_fn(stopper, q, ended) ==
    LET v == stopper_poll(stopper) IN
    IF v = NoResult THEN block_stream_poll(q, ended)
    ELSE IF v.tag = "Panic" THEN [tag |-> "Panic", val |-> v, pulls |-> FALSE]
    ELSE [tag |-> "Some", val |-> v, pulls |-> FALSE]

\* faulty variant: the block0 check is missing
is_block0_never(h) == FALSE

\* the Ok(block) arm up to the call of handle_block: TRUE when the block is
\* skipped (continue)
is_block0(h) == h = block0

\* faulty variant: the periodic report comes before append_block
track_report_first(info, h, checks) ==
    IF info.block_received % PROCESS_LOGGING_DISTANCE = 0
    THEN LET r == report(info, checks) IN
         [info |-> IF r.panic = NoResult THEN append_block(r.info, h) ELSE r.info,
          reported |-> r.logged, panic |-> r.panic]
    ELSE [info |-> append_block(info, h), reported |-> <<>>, panic |-> NoResult]

\* append_block followed by the periodic report: the counters, the line
\* logged if any, and the panic report ended in if any
track(info, h, checks) ==
    LET i == append_block(info, h) IN
    IF i.block_received % PROCESS_LOGGING_DISTANCE = 0
    THEN LET r == report(i, checks) IN
         [info |-> r.info, reported |-> r.logged, panic |-> r.panic]
    ELSE [info |-> i, reported |-> <<>>, panic |-> NoResult]

\* faulty variant: the error is returned without the compensating commit
compensates_never(mpt) == FALSE

\* the Err(err) arm of `match result`: is process_new_ref called before
\* the error is returned?
compensates(mpt) == mpt # <<>>

\* faulty variant: a failure of the compensating call is returned with `?`
compensated_result_secondary(err, ok) ==
    IF ok THEN err ELSE Err("ChainSelectionFailed")

\* what the Err(err) arm returns once the compensating call has ended
compensated_result(err, ok) == err

\* what the code after the loop returns once process_new_ref has ended
final_result(ok) == IF ok THEN Ok ELSE Err("ChainSelectionFailed")

----------------------------------------------------------------------------
(* handle_block *)

\* faulty variant: a block whose parent is missing is skipped instead of failing, and
\* the orphaned block is reported as missing its parent
match_pre_checked_lenient(pre, h) ==
    IF pre.cls = "AlreadyPresent"
    THEN IF pre.cached_reference # <<>>
         THEN OkRef(pre.cached_reference[1])
         ELSE ErrHash("BlockMissingParent", h)
    ELSE IF pre.cls = "MissingParent" THEN OkRef(Parent(h))
    ELSE NoResult

\* the match on pre_checked: Ok(ref), Err(e), or NoResult when the block
\* goes on to post_check_header
match_pre_checked(pre, h) ==
    IF pre.cls = "AlreadyPresent"
    THEN IF pre.cached_reference # <<>>
         THEN OkRef(pre.cached_reference[1])
         ELSE ErrHash("BlockNotOnBranch", h)
    ELSE IF pre.cls = "MissingParent" THEN ErrHash("BlockMissingParent", h)
    ELSE NoResult

----------------------------------------------------------------------------
(* Initial state: bootstrap_from_peer has been called *)

InitTask ==
    /\ pc = "setup"
    /\ bootstrap_stopper = "pending"
    /\ setup = InitSetup
    /\ stream = <<>>
    /\ stream_ended = FALSE
    /\ pulled = <<>>
    /\ yielded = <<>>
    /\ cur = NoHash
    /\ maybe_parent_tip = <<>>
    /\ bootstrap_info = BootstrapInfoNew
    /\ pending_err = NoResult
    /\ result = NoResult
    /\ storage = InitStorage
    /\ ref_cache = InitRefCache
    /\ tip = InitTip
    /\ calls = <<>>
    /\ fired_at = NotFired
    /\ reports = <<>>

Init ==
    /\ InitTask
    /\ sz_in = 0
    /\ sz_out = ""

Running == pc \notin {"done", "panicked"}

----------------------------------------------------------------------------
(* The environment: the shutdown source, the peer, the network *)

\* the shutdown source sends on the one-shot channel
Fire ==
    /\ Running
    /\ bootstrap_stopper = "pending"
    /\ bootstrap_stopper' = "fired"
    /\ fired_at' = [pc |-> pc, pulled |-> pulled, tip |-> maybe_parent_tip,
                    calls |-> calls,
                    waiting |-> pc = "poll" /\ stream = <<>> /\ ~stream_ended]
    /\ UNCHANGED <<pc, setup, stream, stream_ended, pulled, yielded, cur,
                   maybe_parent_tip, bootstrap_info, pending_err, result,
                   storage, ref_cache, tip, calls,
                   reports, sz_in, sz_out>>

\* the shutdown source drops the sender without sending
DropSender ==
    /\ Running
    /\ bootstrap_stopper = "pending"
    /\ bootstrap_stopper' = "closed"
    /\ UNCHANGED <<pc, setup, stream, stream_ended, pulled, yielded, cur,
                   maybe_parent_tip, bootstrap_info, pending_err, result,
                   storage, ref_cache, tip, calls, fired_at,
                   reports, sz_in, sz_out>>

SetupIO(s) ==
    /\ pc = "setup"
    /\ setup' = s
    /\ UNCHANGED <<pc, bootstrap_stopper, stream, stream_ended, pulled, yielded,
                   cur, maybe_parent_tip, bootstrap_info, pending_err, result,
                   storage, ref_cache, tip, calls, fired_at,
                   reports, sz_in, sz_out>>

\* grpc::connect resolves
ConnectCompletes ==
    /\ setup.stage = "connect" /\ setup.connect = "pending"
    /\ \E r \in {"ok", "err"} : SetupIO([setup EXCEPT !.connect = r])

\* client.ready() resolves
ReadyCompletes ==
    /\ setup.stage = "join" /\ setup.ready = "pending"
    /\ \E r \in {"ok", "err"} : SetupIO([setup EXCEPT !.ready = r])

\* blockchain.get_checkpoints resolves (infallible)
CheckpointsComplete ==
    /\ setup.stage = "join" /\ setup.checkpoints = "pending"
    /\ SetupIO([setup EXCEPT !.checkpoints = "ok"])

\* client.pull_blocks_to_tip resolves
PullRequestCompletes ==
    /\ setup.stage = "pull_request" /\ setup.pull = "pending"
    /\ \E r \in {"ok", "err"} : SetupIO([setup EXCEPT !.pull = r])

\* the peer sends one more item on the block stream
Deliver ==
    /\ Running
    /\ setup.pull = "ok"
    /\ ~stream_ended
    /\ Len(pulled) + Len(stream) < MaxItems
    /\ \E item \in StreamItems : stream' = Append(stream, item)
    /\ UNCHANGED <<pc, bootstrap_stopper, setup, stream_ended, pulled, yielded,
                   cur, maybe_parent_tip, bootstrap_info, pending_err, result,
                   storage, ref_cache, tip, calls, fired_at,
                   reports, sz_in, sz_out>>

\* the peer closes the block stream
EndStream ==
    /\ Running
    /\ setup.pull = "ok"
    /\ ~stream_ended
    /\ stream_ended' = TRUE
    /\ UNCHANGED <<pc, bootstrap_stopper, setup, stream, pulled, yielded, cur,
                   maybe_parent_tip, bootstrap_info, pending_err, result,
                   storage, ref_cache, tip, calls, fired_at,
                   reports, sz_in, sz_out>>

----------------------------------------------------------------------------
(* The bootstrap task *)

\* one poll of the select in bootstrap_from_peer
SelectPoll ==
    /\ pc = "setup"
    /\ \E now \in FirstPolls :
       LET r == select(setup, bootstrap_stopper, now) IN
       /\ r.setup # setup \/ r.out # NoResult
       /\ setup' = r.setup
       /\ pc' = IF r.out = NoResult THEN "setup"
                ELSE IF r.out = Ok THEN "poll"
                ELSE IF r.out.tag = "Panic" THEN "panicked"
                ELSE "done"
       /\ result' = IF r.out = NoResult \/ r.out = Ok THEN result ELSE r.out
    /\ UNCHANGED <<bootstrap_stopper, stream, stream_ended, pulled, yielded, cur,
                   maybe_parent_tip, bootstrap_info, pending_err,
                   storage, ref_cache, tip, calls, fired_at,
                   reports, sz_in, sz_out>>

\* faulty variant: only the first accepted reference is remembered
LoopOkKeepsFirst(r) ==
    /\ maybe_parent_tip' = IF maybe_parent_tip = <<>> THEN <<r>> ELSE maybe_parent_tip
    /\ pc' = "poll"
    /\ cur' = NoHash
    /\ UNCHANGED <<pending_err, result>>

\* `match result`, arm Ok(parent_tip)
LoopOk(r) ==
    /\ maybe_parent_tip' = <<r>>
    /\ pc' = "poll"
    /\ cur' = NoHash
    /\ UNCHANGED <<pending_err, result>>

\* faulty variant: the Tip update is attempted on every error, with the branch's own
\* tip when no reference was remembered
LoopErrEager(e) ==
    /\ cur' = NoHash
    /\ maybe_parent_tip' = IF maybe_parent_tip = <<>> THEN <<tip>> ELSE maybe_parent_tip
    /\ pc' = "compensate"
    /\ pending_err' = e
    /\ UNCHANGED result

\* `match result`, arm Err(err)
LoopErr(e) ==
    /\ cur' = NoHash
    /\ UNCHANGED maybe_parent_tip
    /\ IF compensates(maybe_parent_tip)
       THEN pc' = "compensate" /\ pending_err' = e /\ UNCHANGED result
       ELSE pc' = "done" /\ result' = e /\ UNCHANGED pending_err

\* faulty variant: the code after the loop always selects a tip, the branch's
\* own when no reference was remembered
LoopEndEager ==
    /\ UNCHANGED <<cur, pending_err, result>>
    /\ maybe_parent_tip' = IF maybe_parent_tip = <<>> THEN <<tip>> ELSE maybe_parent_tip
    /\ pc' = "select_tip"

\* the code after the loop
LoopEnd ==
    /\ UNCHANGED <<cur, maybe_parent_tip, pending_err>>
    /\ IF maybe_parent_tip # <<>>
       THEN pc' = "select_tip" /\ UNCHANGED result
       ELSE pc' = "done" /\ result' = Ok

\* stream.next().await and the loop body up to its first await
PollNext ==
    /\ pc = "poll"
    /\ LET p == poll_fn(bootstrap_stopper, stream, stream_ended) IN
       /\ p.tag # "Pending"
       /\ yielded' = Log(yielded, IF p.tag = "None" THEN EndOfStream ELSE p.val)
       /\ IF p.pulls
          THEN stream' = Tail(stream) /\ pulled' = Log(pulled, Head(stream))
          ELSE UNCHANGED <<stream, pulled>>
       /\ IF p.tag = "Panic"
          THEN /\ pc' = "panicked" /\ result' = Panic
               /\ UNCHANGED <<cur, maybe_parent_tip, pending_err, bootstrap_info,
                              reports>>
          ELSE IF p.tag = "None"
          THEN LoopEnd /\ UNCHANGED <<bootstrap_info, reports>>
          ELSE IF p.val.tag = "Err"
          THEN LoopErr(p.val) /\ UNCHANGED <<bootstrap_info, reports>>
          ELSE IF is_block0(p.val.hash)
          THEN UNCHANGED <<pc, cur, maybe_parent_tip, pending_err, result,
                           bootstrap_info, reports>>
          ELSE \E checks \in BOOLEAN :
               LET t == track(bootstrap_info, p.val.hash, checks) IN
               /\ bootstrap_info' = t.info
               /\ reports' = reports \o t.reported
               /\ UNCHANGED <<maybe_parent_tip, pending_err>>
               /\ IF t.panic # NoResult
                  THEN pc' = "panicked" /\ result' = t.panic /\ UNCHANGED cur
                  ELSE pc' = "pre_check" /\ cur' = p.val.hash /\ UNCHANGED result
    /\ UNCHANGED <<bootstrap_stopper, setup, stream_ended, storage, ref_cache,
                   tip, calls, fired_at, sz_in, sz_out>>

\* handle_block: pre_check_header resolves, and the match on its value
PreCheckHeader ==
    /\ pc = "pre_check"
    /\ \E ok \in BOOLEAN :
         /\ calls' = Log(calls, Call("pre_check_header", cur, ok,
                IF ok THEN Classification(pre_check_header(cur, storage, ref_cache))
                ELSE ""))
         /\ IF ~ok
            THEN LoopErr(Err("HeaderCheckFailed"))
            ELSE LET m == match_pre_checked(
                              pre_check_header(cur, storage, ref_cache), cur) IN
                 IF m = NoResult
                 THEN /\ pc' = "post_check"
                      /\ UNCHANGED <<cur, maybe_parent_tip, pending_err, result>>
                 ELSE IF m.tag = "Ok" THEN LoopOk(m.hash)
                 ELSE LoopErr(m)
    /\ UNCHANGED <<bootstrap_stopper, setup, stream, stream_ended, pulled,
                   yielded, bootstrap_info, storage, ref_cache, tip, fired_at,
                   reports, sz_in, sz_out>>

\* handle_block: post_check_header resolves
PostCheckHeader ==
    /\ pc = "post_check"
    /\ \E ok \in BOOLEAN :
         /\ calls' = Log(calls, Call("post_check_header", cur, ok, ""))
         /\ IF ok
            THEN /\ pc' = "apply"
                 /\ UNCHANGED <<cur, maybe_parent_tip, pending_err, result>>
            ELSE LoopErr(Err("HeaderCheckFailed"))
    /\ UNCHANGED <<bootstrap_stopper, setup, stream, stream_ended, pulled,
                   yielded, bootstrap_info, storage, ref_cache, tip, fired_at,
                   reports, sz_in, sz_out>>

\* faulty variant: the reference returned is the parent's, not the applied
\* block's
ApplyAndStoreBlockParentRef ==
    /\ pc = "apply"
    /\ \E ok \in BOOLEAN :
         /\ calls' = Log(calls, Call("apply_and_store_block", cur, ok, ""))
         /\ IF ok
            THEN /\ storage' = storage \cup {cur}
                 /\ ref_cache' = ref_cache \cup {cur}
                 /\ LoopOk(Parent(cur))
            ELSE /\ UNCHANGED <<storage, ref_cache>>
                 /\ LoopErr(Err("ApplyBlockFailed"))
    /\ UNCHANGED <<bootstrap_stopper, setup, stream, stream_ended, pulled,
                   yielded, bootstrap_info, tip, fired_at,
                   reports, sz_in, sz_out>>

\* faulty variant: the application is raced against the stopper and dropped
\* when the stopper has fired
ApplyAndStoreBlockAbortable ==
    /\ pc = "apply"
    /\ IF bootstrap_stopper = "fired"
       THEN /\ UNCHANGED <<calls, storage, ref_cache>>
            /\ LoopErr(Err("Interrupted"))
       ELSE \E ok \in BOOLEAN :
            /\ calls' = Log(calls, Call("apply_and_store_block", cur, ok, ""))
            /\ IF ok
               THEN /\ storage' = storage \cup {cur}
                    /\ ref_cache' = ref_cache \cup {cur}
                    /\ LoopOk(cur)
               ELSE /\ UNCHANGED <<storage, ref_cache>>
                    /\ LoopErr(Err("ApplyBlockFailed"))
    /\ UNCHANGED <<bootstrap_stopper, setup, stream, stream_ended, pulled,
                   yielded, bootstrap_info, tip, fired_at,
                   reports, sz_in, sz_out>>

\* handle_block: apply_and_store_block resolves
ApplyAndStoreBlock ==
    /\ pc = "apply"
    /\ \E ok \in BOOLEAN :
         /\ calls' = Log(calls, Call("apply_and_store_block", cur, ok, ""))
         /\ IF ok
            THEN /\ storage' = storage \cup {cur}
                 /\ ref_cache' = ref_cache \cup {cur}
                 /\ LoopOk(cur)
            ELSE /\ UNCHANGED <<storage, ref_cache>>
                 /\ LoopErr(Err("ApplyBlockFailed"))
    /\ UNCHANGED <<bootstrap_stopper, setup, stream, stream_ended, pulled,
                   yielded, bootstrap_info, tip, fired_at,
                   reports, sz_in, sz_out>>

\* faulty variant: the Err(err) arm lacks its `return`, the loop goes on
CompensateNoReturn ==
    /\ pc = "compensate"
    /\ \E ok \in BOOLEAN :
         /\ calls' = Log(calls, Call("process_new_ref", maybe_parent_tip[1], ok, ""))
         /\ tip' = IF ok THEN process_new_ref(tip, maybe_parent_tip[1]) ELSE tip
    /\ pc' = "poll"
    /\ UNCHANGED <<bootstrap_stopper, setup, stream, stream_ended, pulled,
                   yielded, cur, maybe_parent_tip, bootstrap_info, pending_err,
                   result, storage, ref_cache, fired_at,
                   reports, sz_in, sz_out>>

\* the process_new_ref of the Err(err) arm resolves, and the arm returns
Compensate ==
    /\ pc = "compensate"
    /\ \E ok \in BOOLEAN :
         /\ calls' = Log(calls, Call("process_new_ref", maybe_parent_tip[1], ok, ""))
         /\ tip' = IF ok THEN process_new_ref(tip, maybe_parent_tip[1]) ELSE tip
         /\ result' = compensated_result(pending_err, ok)
    /\ pc' = "done"
    /\ UNCHANGED <<bootstrap_stopper, setup, stream, stream_ended, pulled,
                   yielded, cur, maybe_parent_tip, bootstrap_info, pending_err,
                   storage, ref_cache, fired_at,
                   reports, sz_in, sz_out>>

\* the process_new_ref after the loop resolves, and the function returns
SelectTip ==
    /\ pc = "select_tip"
    /\ \E ok \in BOOLEAN :
         /\ calls' = Log(calls, Call("process_new_ref", maybe_parent_tip[1], ok, ""))
         /\ tip' = IF ok THEN process_new_ref(tip, maybe_parent_tip[1]) ELSE tip
         /\ result' = final_result(ok)
    /\ pc' = "done"
    /\ UNCHANGED <<bootstrap_stopper, setup, stream, stream_ended, pulled,
                   yielded, cur, maybe_parent_tip, bootstrap_info, pending_err,
                   storage, ref_cache, fired_at,
                   reports, sz_in, sz_out>>

Next ==
    \/ Fire
    \/ DropSender
    \/ ConnectCompletes
    \/ ReadyCompletes
    \/ CheckpointsComplete
    \/ PullRequestCompletes
    \/ Deliver
    \/ EndStream
    \/ SelectPoll
    \/ PollNext
    \/ PreCheckHeader
    \/ PostCheckHeader
    \/ ApplyAndStoreBlock
    \/ Compensate
    \/ SelectTip

Spec == Init /\ [][Next]_vars

\* The executor polls the task again once the stopper or the block stream has
\* woken it, and a call of process_new_ref resolves.
SpecFair == Spec /\ WF_vars(PollNext) /\ WF_vars(Compensate)

----------------------------------------------------------------------------
(* print_sz on its own *)

SzCentres == {1000, 1024, 1000000, 1024 * 1024}

\* the magnitudes tried: the small ones, and those around each threshold and
\* each divisor
SzInputs ==
    (0..SzWindow) \cup
    {c + d : c \in SzCentres, d \in (0 - SzWindow)..SzWindow}

InitPrintSz ==
    /\ InitTask
    /\ sz_in \in SzInputs
    /\ sz_out = ""

PrintSz ==
    /\ sz_out = ""
    /\ sz_out' = print_sz(sz_in)
    /\ UNCHANGED <<pc, bootstrap_stopper, setup, stream, stream_ended, pulled,
                   yielded, cur, maybe_parent_tip, bootstrap_info, pending_err,
                   result, storage, ref_cache, tip, calls, fired_at, reports,
                   sz_in>>

NextPrintSz == PrintSz

SpecPrintSz == InitPrintSz /\ [][NextPrintSz]_vars

----------------------------------------------------------------------------
(* A long run: the peer sends LongItems blocks, one at a time, each when the
   task is waiting for it, then closes the stream; the stopper stays pending.
   The histories keep the first MaxHistory entries of such a run. *)

\* the i-th block of the long run: the three blocks above the initial tip,
\* then blocks the node has by then
LongItem(i) == IF i <= 3 THEN i + 3 ELSE <<1, 2, 4, 5, 6>>[1 + (i % 5)]

DeliverLong ==
    /\ pc = "poll"
    /\ stream = <<>>
    /\ ~stream_ended
    /\ bootstrap_info.block_received < LongItems
    /\ stream' = <<OkBlock(LongItem(bootstrap_info.block_received + 1))>>
    /\ UNCHANGED <<pc, bootstrap_stopper, setup, stream_ended, pulled, yielded,
                   cur, maybe_parent_tip, bootstrap_info, pending_err, result,
                   storage, ref_cache, tip, calls, fired_at, reports, sz_in,
                   sz_out>>

EndStreamLong ==
    /\ bootstrap_info.block_received = LongItems
    /\ EndStream

NextLong ==
    \/ ConnectCompletes
    \/ ReadyCompletes
    \/ CheckpointsComplete
    \/ PullRequestCompletes
    \/ SelectPoll
    \/ DeliverLong
    \/ EndStreamLong
    \/ PollNext
    \/ PreCheckHeader
    \/ PostCheckHeader
    \/ ApplyAndStoreBlock
    \/ Compensate
    \/ SelectTip

SpecLong == Init /\ [][NextLong]_vars

----------------------------------------------------------------------------
(* Reading the histories *)

Last(q) == q[Len(q)]

IsProcessNewRef(c) == c.op = "process_new_ref"

IsApplied(c) == c.op = "apply_and_store_block" /\ c.ok

IsAccepted(c) ==
    \/ IsApplied(c)
    \/ c.op = "pre_check_header" /\ c.ok /\ c.cls = "AlreadyPresentSome"

\* the calls of process_new_ref made so far
TipCommits == SelectSeq(calls, IsProcessNewRef)

\* every item of p is a block that was applied, in this order: cs holds
\* exactly Len(p) successful applications
AllApplied(p, cs) ==
    LET a == SelectSeq(cs, IsApplied) IN
    /\ Len(a) = Len(p)
    /\ \A i \in 1..Len(p) : p[i] = OkBlock(a[i].hash)

Contiguous(p) == \A i \in 2..Len(p) : Parent(p[i].hash) = p[i - 1].hash

SetupErrors == {Err("Connect"), Err("ClientNotReady"), Err("PullRequestFailed")}

----------------------------------------------------------------------------
(* C1 *)

\* the run has returned, the stopper is still pending, and the stream was a
\* non-empty contiguous run of blocks that were all applied
C1_Case ==
    /\ pc = "done"
    /\ bootstrap_stopper = "pending"
    /\ pulled # <<>>
    /\ AllApplied(pulled, calls)
    /\ Contiguous(pulled)

\* C1 as stated: for a stream of new, contiguous, valid blocks and no
\* cancellation, process_new_ref is called exactly once, with the reference of
\* the last block, and the run returns success.
C1_AsStated ==
    C1_Case =>
        /\ Len(TipCommits) = 1
        /\ TipCommits[1].hash = Last(pulled).hash
        /\ result = Ok

\* C1 amended: for a stream of new, contiguous, valid blocks and no
\* cancellation, process_new_ref is called exactly once, with the reference of
\* the last block; the run returns success when that call succeeds and
\* ChainSelectionFailed when it fails.
C1_OneCommitOfLastRef ==
    C1_Case =>
        /\ Len(TipCommits) = 1
        /\ TipCommits[1].hash = Last(pulled).hash
        /\ result = IF TipCommits[1].ok THEN Ok ELSE Err("ChainSelectionFailed")

C1_Witness ==
    /\ C1_Case
    /\ Len(pulled) = 3
    /\ result = Ok
    /\ tip = Last(pulled).hash

----------------------------------------------------------------------------
(* C2 *)

\* the stopper fired while the task was waiting for the next item, after the
\* K >= 1 blocks pulled so far had all been applied; the run has returned
C2_Case ==
    /\ pc = "done"
    /\ fired_at.pc = "poll"
    /\ fired_at.pulled # <<>>
    /\ AllApplied(fired_at.pulled, fired_at.calls)

\* C2: a cancellation that fires after K >= 1 blocks were applied and before
\* block K+1 is pulled makes the run call process_new_ref once, with the
\* reference of the K-th block, and return Interrupted; block K+1 is not pulled.
C2_InterruptedAfterK ==
    C2_Case =>
        /\ Len(TipCommits) = 1
        /\ TipCommits[1].hash = Last(fired_at.pulled).hash
        /\ result = Err("Interrupted")
        /\ pulled = fired_at.pulled

C2_Witness ==
    /\ C2_Case
    /\ Len(fired_at.pulled) = 2
    /\ stream # <<>>
    /\ tip = Last(fired_at.pulled).hash

----------------------------------------------------------------------------
(* C3 *)

\* the stopper fired during the setup phase or before the first item was
\* pulled from the stream, and the run has returned
C3_Case ==
    /\ pc = "done"
    /\ fired_at.pc \in {"setup", "poll"}
    /\ fired_at.pulled = <<>>

\* C3 as stated: a cancellation that fires during the setup phase or before the
\* first stream item is handled makes the run return Interrupted without any
\* call of process_new_ref.
C3_AsStated ==
    C3_Case =>
        /\ result = Err("Interrupted")
        /\ TipCommits = <<>>
        /\ tip = InitTip

\* C3 amended: a cancellation that fires during the setup phase or before the
\* first stream item is handled makes the run return Interrupted, or, when the
\* setup future has already failed at the poll of the race, that setup error;
\* no block is pulled and process_new_ref is never called.
C3_InterruptedOrSetupError ==
    C3_Case =>
        /\ \/ result = Err("Interrupted")
           \/ /\ fired_at.pc = "setup"
              /\ result \in SetupErrors
              /\ "err" \in {setup.connect, setup.ready, setup.pull}
        /\ pulled = <<>>
        /\ TipCommits = <<>>
        /\ tip = InitTip

\* the cancellation arrived while the pull request was pending
C3_Witness ==
    /\ C3_Case
    /\ result = Err("Interrupted")
    /\ fired_at.pc = "setup"
    /\ setup.stage = "pull_request"
    /\ setup.pull = "pending"

----------------------------------------------------------------------------
(* C4 *)

\* a step is a poll of the merged stream that yielded something
MergedPoll == Len(yielded') = Len(yielded) + 1

\* C4: at every poll of the merged stream, a fired stopper makes the poll yield
\* Interrupted and leaves the block stream untouched, whatever it has ready; a
\* pending stopper makes the poll yield what the block stream yields.
C4_StopperFirst ==
    [][MergedPoll =>
         /\ bootstrap_stopper = "fired" =>
              /\ Last(yielded') = Err("Interrupted")
              /\ stream' = stream
              /\ pulled' = pulled
         /\ bootstrap_stopper = "pending" =>
              IF stream # <<>>
              THEN /\ pulled' = Log(pulled, Head(stream))
                   /\ stream' = Tail(stream)
                   /\ Last(yielded') = IF Head(stream).tag = "Ok" THEN Head(stream)
                                       ELSE Err("PullStreamFailed")
              ELSE /\ stream_ended
                   /\ Last(yielded') = EndOfStream
                   /\ pulled' = pulled]_vars

\* the poll yielded Interrupted while the block stream had items ready
C4_Witness ==
    /\ pc = "done"
    /\ yielded # <<>>
    /\ Last(yielded) = Err("Interrupted")
    /\ maybe_parent_tip = <<>>
    /\ stream # <<>>

----------------------------------------------------------------------------
(* The error the block loop halted on, read from the histories *)

IsEngineCall(c) == ~IsProcessNewRef(c)

\* what handle_block's last call amounts to: the error it stands for, or
\* NoResult when it succeeded
CallError(c) ==
    IF c.op = "pre_check_header"
    THEN IF ~c.ok THEN Err("HeaderCheckFailed")
         ELSE IF c.cls = "AlreadyPresentNone" THEN ErrHash("BlockNotOnBranch", c.hash)
         ELSE IF c.cls = "MissingParent" THEN ErrHash("BlockMissingParent", c.hash)
         ELSE NoResult
    ELSE IF c.ok THEN NoResult
    ELSE IF c.op = "post_check_header" THEN Err("HeaderCheckFailed")
    ELSE Err("ApplyBlockFailed")

\* the error that stopped the loop: a stream error or Interrupted yielded by
\* the merged stream, or the error of the last block handled
HaltCause ==
    IF yielded = <<>> THEN NoResult
    ELSE IF Last(yielded).tag = "Err" THEN Last(yielded)
    ELSE IF Last(yielded).tag # "Ok" THEN NoResult
    ELSE LET e == SelectSeq(calls, IsEngineCall) IN
         IF e = <<>> \/ pc \notin {"compensate", "done"} THEN NoResult
         ELSE IF Last(e).hash # Last(yielded).hash THEN NoResult
         ELSE CallError(Last(e))

Halted == HaltCause # NoResult

Accepted(cs) == SelectSeq(cs, IsAccepted)

----------------------------------------------------------------------------
(* C6 *)

C6_Rejects(c) ==
    /\ c.op = "pre_check_header"
    /\ c.ok
    /\ c.cls \in {"AlreadyPresentNone", "MissingParent"}

\* C6: once a block is classified AlreadyPresent-without-reference or
\* MissingParent, it stays the last block pulled and the last one classified,
\* nothing is applied after it, the run returns BlockNotOnBranch or
\* BlockMissingParent with its hash, and process_new_ref is called (once, with
\* the last reference accepted before that block) exactly when an earlier
\* block was accepted.
C6_HaltsOnRejectedBlock ==
    \A i \in 1..Len(calls) :
        C6_Rejects(calls[i]) =>
            LET before == Accepted(SubSeq(calls, 1, i - 1)) IN
            /\ pc \in {"compensate", "done"}
            /\ Last(pulled) = OkBlock(calls[i].hash)
            /\ \A j \in (i + 1)..Len(calls) : IsProcessNewRef(calls[j])
            /\ pc = "done" =>
                 /\ result = ErrHash(IF calls[i].cls = "MissingParent"
                                     THEN "BlockMissingParent"
                                     ELSE "BlockNotOnBranch", calls[i].hash)
                 /\ Len(TipCommits) = IF before = <<>> THEN 0 ELSE 1
                 /\ before # <<>> => TipCommits[1].hash = Last(before).hash

\* the peer offers [4, 6, ..]: 4 is applied, 6 lacks its parent 5
C6_Witness ==
    /\ pc = "done"
    /\ result = ErrHash("BlockMissingParent", 6)
    /\ Len(TipCommits) = 1
    /\ TipCommits[1].hash = 4
    /\ tip = 4
    /\ stream # <<>>

----------------------------------------------------------------------------
(* C7 *)

\* the loop halted on an error and the compensating process_new_ref failed
C7_Case ==
    /\ pc = "done"
    /\ Halted
    /\ TipCommits # <<>>
    /\ ~TipCommits[1].ok

\* C7: when the loop halts on an error after a block was accepted and the
\* compensating process_new_ref fails, the run returns the halting error and
\* not ChainSelectionFailed.
C7_OriginalErrorReturned ==
    C7_Case =>
        /\ result = HaltCause
        /\ result.kind # "ChainSelectionFailed"

C7_Witness ==
    /\ C7_Case
    /\ result = Err("ApplyBlockFailed")
    /\ tip = InitTip

----------------------------------------------------------------------------
(* C8 *)

\* C8 as stated: if the loop halts and no block was applied to storage during
\* the run, process_new_ref is not called and the halting error is returned.
C8_AsStated ==
    (pc = "done" /\ Halted /\ SelectSeq(calls, IsApplied) = <<>>) =>
        /\ TipCommits = <<>>
        /\ result = HaltCause

\* C8 amended: if the loop halts and no block was accepted during the run
\* (none applied and none found AlreadyPresent with a cached reference),
\* process_new_ref is not called and the halting error is returned.
C8_NoCommitWithoutAccepted ==
    (pc = "done" /\ Halted /\ Accepted(calls) = <<>>) =>
        /\ TipCommits = <<>>
        /\ result = HaltCause
        /\ tip = InitTip

C8_Witness ==
    /\ pc = "done"
    /\ Halted
    /\ Accepted(calls) = <<>>
    /\ result = ErrHash("BlockNotOnBranch", 3)
    /\ Len(pulled) > 1

----------------------------------------------------------------------------
(* C9 *)

\* a step pulls a block whose hash is block0
PullsBlock0 == pulled' # pulled /\ Last(pulled') = OkBlock(block0)

\* C9: a block with the hash of block0 is never given to pre_check_header,
\* post_check_header or apply_and_store_block, and the step that pulls it
\* changes neither the Progress Tracker nor the last known good reference,
\* and makes no call.
C9_Block0Skipped ==
    /\ [](\A i \in 1..Len(calls) : IsEngineCall(calls[i]) => calls[i].hash # block0)
    /\ [][PullsBlock0 =>
            /\ bootstrap_info' = bootstrap_info
            /\ maybe_parent_tip' = maybe_parent_tip
            /\ calls' = calls
            /\ pc' = "poll"]_vars

\* block0 was delivered twice, the second time after a block was accepted
C9_Witness ==
    /\ Len(pulled) = 3
    /\ pulled[1] = OkBlock(block0)
    /\ pulled[3] = OkBlock(block0)
    /\ maybe_parent_tip = <<pulled[2].hash>>
    /\ bootstrap_info.block_received = 1

----------------------------------------------------------------------------
(* C10 *)

\* C10: process_new_ref is called at most once in a run, the run has returned
\* as soon as the call has resolved, and after it no block is pulled,
\* classified or applied.
C10_AtMostOneCommit ==
    /\ [](/\ Len(TipCommits) <= 1
          /\ TipCommits # <<>> => pc = "done" /\ IsProcessNewRef(Last(calls)))
    /\ [][TipCommits # <<>> => pulled' = pulled /\ calls' = calls]_vars

\* the commit was made with items of the stream left unpulled
C10_Witness ==
    /\ Len(TipCommits) = 1
    /\ pc = "done"
    /\ stream # <<>>
    /\ result = Err("PullStreamFailed")

----------------------------------------------------------------------------
(* C11 *)

\* the merged stream ended, and all it had yielded were blocks with the hash
\* of block0; the run has returned
C11_Case ==
    /\ pc = "done"
    /\ yielded # <<>>
    /\ Last(yielded) = EndOfStream
    /\ \A i \in 1..Len(pulled) : pulled[i] = OkBlock(block0)

\* C11: a stream that ends without error or cancellation after delivering no
\* block, or only blocks with the genesis hash, makes the run return success
\* without any call of process_new_ref.
C11_EmptyStreamIsSuccess ==
    C11_Case =>
        /\ result = Ok
        /\ TipCommits = <<>>
        /\ calls = <<>>
        /\ tip = InitTip

C11_Witness ==
    /\ C11_Case
    /\ Len(pulled) = 2
    /\ result = Ok

----------------------------------------------------------------------------
(* C12 *)

\* what stream_future resolved to when it was polled last, NoResult when it
\* suspended
SetupOutcome(s) == stream_future(s, AllPending).out

\* a step in which the task polls the stopper: a poll of the select that
\* finds stream_future pending, or a poll of the merged stream
PollsStopper ==
    \/ /\ pc = "setup"
       /\ pc' # pc \/ setup'.stage # setup.stage
       /\ SetupOutcome(setup') = NoResult
    \/ /\ pc = "poll"
       /\ pc' # pc \/ yielded' # yielded

\* C12: with the sender dropped without firing, the run never returns
\* Interrupted; every step that polls the closed stopper ends the run in the
\* panic, which is neither success nor an Error, pulls nothing and makes no
\* call.
C12_ClosedStopperPanics ==
    /\ [](/\ bootstrap_stopper = "closed" => result # Err("Interrupted")
          /\ pc = "panicked" <=> result = Panic
          /\ pc = "panicked" => bootstrap_stopper = "closed")
    /\ [][(bootstrap_stopper = "closed" /\ PollsStopper) =>
            /\ pc' = "panicked"
            /\ result' = Panic
            /\ pulled' = pulled
            /\ calls' = calls]_vars

\* the panic at a poll of the merged stream, after a block was accepted
C12_Witness ==
    /\ pc = "panicked"
    /\ result = Panic
    /\ maybe_parent_tip # <<>>
    /\ stream # <<>>

----------------------------------------------------------------------------
(* C13 *)

SetupFailed == "err" \in {setup.connect, setup.ready, setup.pull}

\* C13: a failure of connect, of the readiness wait or of the pull request,
\* with the stopper pending, makes the run return Connect, ClientNotReady or
\* PullRequestFailed; after such a failure nothing is pulled or handled and
\* process_new_ref is not called; the pull request is issued only when the
\* readiness wait and the checkpoint computation have both succeeded.
C13_SetupFailureIsFatal ==
    /\ SetupFailed =>
         /\ pc \in {"setup", "done", "panicked"}
         /\ stream = <<>> /\ pulled = <<>> /\ yielded = <<>> /\ calls = <<>>
         /\ tip = InitTip
    /\ (pc = "done" /\ bootstrap_stopper = "pending") =>
         /\ setup.connect = "err" => result = Err("Connect")
         /\ setup.ready = "err" => result = Err("ClientNotReady")
         /\ setup.pull = "err" => result = Err("PullRequestFailed")
    /\ setup.pull # "idle" =>
         /\ setup.connect = "ok"
         /\ setup.ready = "ok"
         /\ setup.checkpoints = "ok"
    /\ setup.ready # "idle" => setup.connect = "ok"

\* the readiness wait failed while the checkpoints were still being computed
C13_Witness ==
    /\ pc = "done"
    /\ bootstrap_stopper = "pending"
    /\ result = Err("ClientNotReady")
    /\ setup.checkpoints = "pending"

----------------------------------------------------------------------------
(* C14 *)

\* the stopper fired while the task was waiting on a block stream that had
\* nothing ready and had not ended
FiredWhileWaiting == bootstrap_stopper = "fired" /\ fired_at.waiting

\* C14: a cancellation that fires while the merged stream waits on a block
\* stream with nothing ready leads to the run returning Interrupted, whether or
\* not the block stream ever yields again.
C14_InterruptedWithoutStream ==
    FiredWhileWaiting ~> (pc = "done" /\ result = Err("Interrupted"))

\* Interrupted was returned, after the compensating commit, with the block
\* stream still silent
C14_Witness ==
    /\ FiredWhileWaiting
    /\ pc = "done"
    /\ result = Err("Interrupted")
    /\ stream = <<>> /\ ~stream_ended
    /\ Len(TipCommits) = 1
    /\ pulled = fired_at.pulled

----------------------------------------------------------------------------
(* C15 *)

\* the stopper fired while handle_block was working on a block, and the run
\* has returned
C15_Case ==
    /\ pc = "done"
    /\ fired_at.pc \in {"pre_check", "post_check", "apply"}

\* C15: a cancellation that fires while handle_block is in flight leaves that
\* block to be handled to its end: the calls made after the firing are those
\* for that block, no further block is pulled, and when the block is accepted
\* its reference is the one committed and Interrupted comes from the next poll
\* of the merged stream; when it fails, its own error is returned.
C15_InFlightBlockCompletes ==
    C15_Case =>
        LET h == Last(fired_at.pulled).hash
            e == SelectSeq(calls, IsEngineCall)
        IN
        /\ pulled = fired_at.pulled
        /\ Len(e) > Len(SelectSeq(fired_at.calls, IsEngineCall))
        /\ \A i \in (Len(fired_at.calls) + 1)..Len(calls) :
               IsEngineCall(calls[i]) => calls[i].hash = h
        /\ fired_at.pc = "apply" => Last(e).op = "apply_and_store_block"
        /\ IF IsAccepted(Last(e))
           THEN /\ result = Err("Interrupted")
                /\ Last(yielded) = Err("Interrupted")
                /\ yielded[Len(yielded) - 1] = OkBlock(h)
                /\ Len(TipCommits) = 1
                /\ TipCommits[1].hash = h
           ELSE /\ CallError(Last(e)) # NoResult
                /\ result = CallError(Last(e))

\* the stopper fired during apply_and_store_block; the block was applied and
\* its reference committed, with further items of the stream left unpulled
C15_Witness ==
    /\ C15_Case
    /\ fired_at.pc = "apply"
    /\ result = Err("Interrupted")
    /\ Len(TipCommits) = 1
    /\ tip = Last(fired_at.pulled).hash
    /\ stream # <<>>

----------------------------------------------------------------------------
(* C16 *)

IsOtherBlock(it) == it.tag = "Ok" /\ it.hash # block0

\* the blocks pulled so far whose hash is not that of block0
OtherBlocks == SelectSeq(pulled, IsOtherBlock)

RECURSIVE SumSizes(_)
SumSizes(q) == IF q = <<>> THEN 0 ELSE BlockSize(Head(q).hash) + SumSizes(Tail(q))

InFlight == pc \in {"pre_check", "post_check", "apply"}

\* C16 as stated: the block counter equals the number of blocks accepted so
\* far, plus the block handle_block is working on.
C16_AsStated ==
    bootstrap_info.block_received =
        Len(Accepted(calls)) + (IF InFlight THEN 1 ELSE 0)

\* C16 amended: the counters are advanced for every block pulled from the
\* stream whose hash is not that of block0, before handle_block is called: at
\* every point the block counter is the number of such blocks pulled and the
\* byte counter the sum of their sizes; the block counter exceeds the number of
\* accepted blocks by one while a block is in flight and after the block the
\* loop halted on was rejected.
C16_CountsReceivedBlocks ==
    /\ bootstrap_info.block_received = Len(OtherBlocks)
    /\ bootstrap_info.bytes_received = SumSizes(OtherBlocks)
    /\ bootstrap_info.last_block_description =
         IF OtherBlocks = <<>> THEN <<>> ELSE <<Last(OtherBlocks).hash>>
    /\ bootstrap_info.block_received =
         Len(Accepted(calls))
           + (IF InFlight \/ (pc \in {"compensate", "done"} /\ Halted
                              /\ Last(yielded).tag = "Ok")
              THEN 1 ELSE 0)

\* the second block was counted and then rejected
C16_Witness ==
    /\ pc = "done"
    /\ result.kind = "BlockMissingParent"
    /\ bootstrap_info.block_received = 2
    /\ Len(Accepted(calls)) = 1

----------------------------------------------------------------------------
(* C17 *)

\* r is a, or a block whose chain of parents passes through a
RECURSIVE Descends(_, _)
Descends(r, a) ==
    IF r = a THEN TRUE
    ELSE IF r = NoHash \/ r = block0 THEN FALSE
    ELSE Descends(Parent(r), a)

\* C17 as stated: every reference handed to process_new_ref descends from the
\* Tip's value at the start of the run.
C17_AsStated ==
    \A i \in 1..Len(TipCommits) : Descends(TipCommits[i].hash, InitTip)

\* block c was classified HeaderWithCache in the run, and applied after that
AppliedOnCachedParent(c) ==
    \E j \in 1..Len(calls) : \E k \in (j + 1)..Len(calls) :
        /\ calls[j] = Call("pre_check_header", c, TRUE, "HeaderWithCache")
        /\ calls[k] = Call("apply_and_store_block", c, TRUE, "")

\* C17 amended: every reference handed to process_new_ref is the reference of
\* the last block accepted in the run, a block that is in storage with a
\* cached reference: if that block was applied, it had been classified
\* HeaderWithCache and its parent has a cached reference; if it was found
\* AlreadyPresent with its cached reference, it was in storage with that
\* reference when the run started or was applied earlier in the run.  Descent
\* from the Tip's value at the start of the run is not part of it.
C17_CandidateIsLastAccepted ==
    \A i \in 1..Len(TipCommits) :
        LET c == TipCommits[i].hash
            a == Accepted(calls)
        IN
        /\ a # <<>>
        /\ c = Last(a).hash
        /\ c \in storage /\ c \in ref_cache
        /\ IF IsApplied(Last(a))
           THEN AppliedOnCachedParent(c) /\ Parent(c) \in ref_cache
           ELSE \/ c \in InitStorage /\ c \in InitRefCache
                \/ AppliedOnCachedParent(c)

\* the candidate is block 7, applied in the run on block 1, below the initial
\* Tip
C17_Witness ==
    /\ pc = "done"
    /\ Len(TipCommits) = 1
    /\ TipCommits[1].hash = 7
    /\ TipCommits[1].ok
    /\ ~Descends(7, InitTip)
    /\ result = Ok

----------------------------------------------------------------------------
(* C18 *)

\* n rendered in megabytes from mbFrom on, in kilobytes from kbFrom on, in
\* bytes below
Rendering(n, mbFrom, kbFrom) ==
    IF n >= mbFrom THEN Format2(n, 1024 * 1024) \o "mb"
    ELSE IF n >= kbFrom THEN Format2(n, 1024) \o "kb"
    ELSE Format2(n, 1) \o "b"

\* C18 as stated: print_sz renders n >= 1,000,000 in megabytes (n divided by
\* 1024*1024), else n >= 1,000 in kilobytes (n divided by 1024), else in bytes;
\* n = 1,000 is rendered in kilobytes and n = 1,000,000 in megabytes.
C18_AsStated ==
    sz_out # "" => sz_out = Rendering(sz_in, 1000000, 1000)

\* C18 amended: print_sz renders a whole n > 1,000,000 in megabytes (n divided
\* by 1024*1024), else n > 1,000 in kilobytes (n divided by 1024), else in
\* bytes; n = 1,000 is rendered in bytes and n = 1,000,000 in kilobytes.
C18_StrictThresholds ==
    sz_out # "" =>
        /\ sz_out = Rendering(sz_in, 1000001, 1001)
        /\ sz_in = 1000 => sz_out = "1000.00b"
        /\ sz_in = 1001 => sz_out = "0.98kb"
        /\ sz_in = 1024 => sz_out = "1.00kb"
        /\ sz_in = 1000000 => sz_out = "976.56kb"
        /\ sz_in = 1000001 => sz_out = "0.95mb"
        /\ sz_in = 1024 * 1024 => sz_out = "1.00mb"

\* the threshold 1,000 itself, rendered in bytes
C18_Witness ==
    /\ sz_in = 1000
    /\ sz_out = "1000.00b"

----------------------------------------------------------------------------
(* C19 *)

\* C19: report() runs exactly when block_received has just become a positive
\* multiple of PROCESS_LOGGING_DISTANCE; whenever it runs
\* last_block_description is set and last_bytes_received <= bytes_received, so
\* the expect does not panic and the subtraction does not underflow.
C19_ReportsAtMultiples ==
    /\ Len(reports) = bootstrap_info.block_received \div PROCESS_LOGGING_DISTANCE
    /\ \A i \in 1..Len(reports) :
         /\ reports[i].block_received = i * PROCESS_LOGGING_DISTANCE
         /\ reports[i].blockchain # <<>>
         /\ reports[i].last_bytes_received <= reports[i].bytes_received
    /\ result \notin {ReportPanic, SubtractPanic}
    /\ bootstrap_info.last_bytes_received <= bootstrap_info.bytes_received
    /\ bootstrap_info.block_received > 0 =>
         bootstrap_info.last_block_description # <<>>

\* the second report of a run, made when the first had already set
\* last_bytes_received
C19_Witness ==
    /\ Len(reports) = 2
    /\ reports[2].block_received = 2 * PROCESS_LOGGING_DISTANCE
    /\ reports[2].last_bytes_received = reports[1].bytes_received
    /\ reports[2].last_bytes_received > 0
    /\ reports[2].blockchain # <<>>
    /\ pc = "pre_check"

----------------------------------------------------------------------------
(* C20 *)

\* the stopper has fired and the task leaves the race on a poll that found
\* the setup future completed
C20_Case ==
    /\ pc = "setup"
    /\ bootstrap_stopper = "fired"
    /\ pc' # pc
    /\ SetupOutcome(setup') # NoResult

\* C20: when the setup future has completed by the time the race is polled,
\* its outcome is taken although the stopper has fired: a setup failure is
\* returned instead of Interrupted; on success the run enters
\* bootstrap_from_stream, where the first poll of the merged stream yields
\* Interrupted from the same signal without pulling a block.
C20_SetupOutcomeFirst ==
    /\ [][C20_Case =>
            IF SetupOutcome(setup') = Ok
            THEN pc' = "poll" /\ result' = NoResult /\ bootstrap_stopper' = "fired"
            ELSE /\ pc' = "done"
                 /\ result' = SetupOutcome(setup')
                 /\ result' \in SetupErrors]_vars
    /\ []((fired_at.pc = "setup" /\ pc \notin {"setup", "panicked"}
             /\ SetupOutcome(setup) = Ok) =>
            /\ bootstrap_stopper = "fired"
            /\ pulled = <<>> /\ calls = <<>> /\ tip = InitTip
            /\ pc \in {"poll", "done"}
            /\ pc = "poll" => yielded = <<>>
            /\ pc = "done" => yielded = <<Err("Interrupted")>>
            /\ pc = "done" => result = Err("Interrupted"))

\* the pull request had succeeded when the race was polled with the stopper
\* fired: the stream was entered and its first poll yielded Interrupted, the
\* peer's block left unpulled
C20_Witness ==
    /\ pc = "done"
    /\ fired_at.pc = "setup"
    /\ setup.pull = "ok"
    /\ yielded = <<Err("Interrupted")>>
    /\ stream # <<>>
    /\ pulled = <<>>
    /\ result = Err("Interrupted")

====
